---- MODULE Spec2Model ----
(***************************************************************************)
(* A model of libhueble's Lamp class (src/src/__init__.py): the Lamp       *)
(* session (connect / bootstrap, notification callbacks, the change-       *)
(* suppressing setters) and the discovery engine (Lamp.discover).          *)
(*                                                                         *)
(* The program runs on one asyncio event loop.  Code between two awaits    *)
(* runs without interruption, so one action of the model is one such       *)
(* segment: from a call or from the return of an await up to the next      *)
(* await or to the return of the call.  Notification callbacks and the     *)
(* loss of the transport are steps of the environment, taken while the     *)
(* caller is suspended on an await or between two calls.                   *)
(***************************************************************************)
EXTENDS Integers, Sequences, FiniteSets, TLC

(***************************************************************************)
(* Lamp session state.                                                     *)
(*   client      self.client: "none" (None), "up" (a BleakClient that      *)
(*               reports is_connected), "down" (a BleakClient that does    *)
(*               not)                                                      *)
(*   model, power, brightness, color                                       *)
(*               the mirrored fields self.__model ...; None or Some(v)     *)
(*   converter   self.converter                                            *)
(*   subs        characteristics with a start_notify on the current client *)
(*   pc          where the caller's coroutine is suspended ("idle": no     *)
(*               call in progress)                                         *)
(*   call        the call in progress, or the last one                     *)
(*   outcome     "run" while it is in progress, then "ok" or "fault"       *)
(* History, for the properties:                                            *)
(*   clog        what the call did on the transport, in order              *)
(*   pre         the mirrored fields as they were when the call began,     *)
(*               kept up to date with the notifications applied since;     *)
(*               pre.raced: the characteristics a notification was applied *)
(*               to while a setter waited for a write, after the setter    *)
(*               last assigned that field                                  *)
(*   prev        the call before this one, when this one began in the      *)
(*               same segment in which that one returned (kept for a       *)
(*               set_power and for a disconnect that returned)             *)
(*   quiet       no environment step since the last call returned          *)
(*   populated   the mirrored fields assigned at least once                *)
(***************************************************************************)
VARIABLES client, model, converter, power, brightness, color, subs,
          pc, call, outcome, clog, pre, prev, quiet, populated

svars == <<client, model, converter, power, brightness, color, subs,
           pc, call, outcome, clog, pre, prev, quiet, populated>>

(***************************************************************************)
(* Discovery state (one call of Lamp.discover).                            *)
(*   scan        "scanning" while discover awaits BleakScanner.discover,   *)
(*               then "returned" or "raised"                               *)
(*   detected_device_addresses, discovered_lamps                           *)
(*               the two sets of discover                                  *)
(*   tasks       detection_callback_tasks, in the order of creation; each  *)
(*               task with its device and the place its coroutine is at;   *)
(*               conn: its connection is open; released: the exit of its   *)
(*               async with has begun to await the disconnection; cancel:  *)
(*               cancel() was called on it                                 *)
(*   cb          the device of a detection_callback that has claimed the   *)
(*               address and not yet created its task (one segment of the  *)
(*               event loop: nothing else runs in between)                 *)
(*   adverts     advertisement callbacks delivered so far                  *)
(*   returned    the list discover returned, as a set of Lamp objects      *)
(***************************************************************************)
VARIABLES scan, detected_device_addresses, discovered_lamps, tasks, cb,
          adverts, returned

dvars == <<scan, detected_device_addresses, discovered_lamps, tasks, cb,
           adverts, returned>>

(***************************************************************************)
(* The lamp at the other end of the link, for the power attribute.         *)
(*   dev_power   the lamp's actual power state                             *)
(*   inflight    what the lamp has sent and the client has not yet         *)
(*               received, in order: power notifications and the response  *)
(*               to a write                                                *)
(*   wire        the power write of set_power: "idle" (none), "sent" (on   *)
(*               its way to the lamp), "applied" (the lamp has applied     *)
(*               it and responded), "acked" (the response has arrived: the *)
(*               coroutine is scheduled to resume)                         *)
(***************************************************************************)
VARIABLES dev_power, inflight, wire

rvars == <<dev_power, inflight, wire>>

vars == <<svars, dvars, rvars>>

None == <<>>
Some(v) == <<v>>

\* ------------------------------------------------------------------
\* Wire constants
\* ------------------------------------------------------------------
CHAR_MODEL == "model"
CHAR_POWER == "power"
CHAR_BRIGHTNESS == "brightness"
CHAR_TEMPERATURE == "temperature"
CHAR_COLOR == "color"
ALL_CHARS == {CHAR_MODEL, CHAR_POWER, CHAR_BRIGHTNESS, CHAR_TEMPERATURE, CHAR_COLOR}

\* 0xFE, the device's largest brightness code
MaxBrightness == 254
\* 0xFFFF, the device's largest colour coordinate
MaxCoord == 65535

\* ------------------------------------------------------------------
\* Inputs.  A float argument is a dyadic rational k / Den, which a
\* double holds exactly and multiplies by 254 or 65535 exactly, so the
\* integer arithmetic below is the arithmetic of the program.
\* ------------------------------------------------------------------
BrightDen == 1024
\* 0, a positive value that quantizes to 0, the smallest that quantizes
\* to 1, two ties (63.5 -> 64 and 190.5 -> 190) and 1.0
BrightNums == {0, 2, 3, 256, 768, 1024}
ColorDen == 65536
\* coordinates up to 0.25: get_color's products stay below 2^31
ColorArgs == {<<0, 0>>, <<1, 16384>>}

\* Payloads a read or a notification may carry (well-formed and not)
PowerPayloads == {<<0>>, <<1>>, <<2>>}
BrightPayloads == {<<1>>, <<1, 1>>}
ColorPayloads == {<<1, 0, 0, 64>>, <<1, 0>>}
ModelPayloads == {"LCT001", "XYZ", "non-ascii"}

\* ------------------------------------------------------------------
\* Pure functions
\* ------------------------------------------------------------------
\* Python's round() of the non-negative rational n / d: to the nearest
\* integer, a tie to the even one
Round(n, d) ==
    LET q == n \div d
        r == n % d
    IN  IF 2 * r < d THEN q
        ELSE IF 2 * r > d THEN q + 1
        ELSE IF q % 2 = 0 THEN q ELSE q + 1

\* (mutant) the scale taken as 0xFF
hue_value_ff(k) == Round(k * 255, BrightDen)

\* round(value * 0xFE) for value = k / BrightDen
hue_value(k) == Round(k * MaxBrightness, BrightDen)

\* round(color[i] * 0xFFFF) for color[i] = k / ColorDen
coord(k) == Round(k * MaxCoord, ColorDen)

\* bytes([1 if on else 0])
power_byte(on) == <<IF on THEN 1 ELSE 0>>

\* pack('<HH', x, y)
pack_HH(x, y) == <<x % 256, x \div 256, y % 256, y \div 256>>

\* unpack('<HH', data)
unpack_HH(data) == <<data[1] + 256 * data[2], data[3] + 256 * data[4]>>

\* (mutant) the assertion of power_callback not evaluated
power_ok_any(data) == TRUE

\* The callbacks' assertions
power_ok(data) == data \in {<<0>>, <<1>>}
brightness_ok(data) == Len(data) = 1
color_ok(data) == Len(data) = 4

\* What the callbacks store
power_decode(data) == Some(data = <<1>>)
brightness_decode(data) == Some(data[1])
color_decode(data) == Some(unpack_HH(data))

\* get_light_gamut(model), with the fallback to GamutC
gamut_of(m) == IF m = "LCT001" THEN "GamutB" ELSE "GamutC"

\* ------------------------------------------------------------------
\* History records
\* ------------------------------------------------------------------
Write(ch, data, val, seen) ==
    [k |-> "write", ch |-> ch, data |-> data, val |-> val, seen |-> seen]
Ack(ch) == [k |-> "ack", ch |-> ch, data |-> <<>>, val |-> None, seen |-> None]
Raised == [k |-> "raise", ch |-> "", data |-> <<>>, val |-> None, seen |-> None]
\* connect issues a read_gatt_char (k = "read") or a start_notify
\* (k = "subscribe") and awaits it
Issued(k, ch) == [k |-> k, ch |-> ch, data |-> <<>>, val |-> None, seen |-> None]
\* a payload read during connect that its callback (or the decoding of the
\* model) rejected
Malformed(ch, data) ==
    [k |-> "malformed", ch |-> ch, data |-> data, val |-> None, seen |-> None]

Writes(log) == {i \in 1..Len(log) : log[i].k = "write"}
WritesTo(log, ch) == {i \in Writes(log) : log[i].ch = ch}
Acks(log, ch) == {i \in 1..Len(log) : log[i].k = "ack" /\ log[i].ch = ch}

NoPrev == [op |-> "none", arg |-> FALSE, nw |-> 0, ok |-> FALSE]

Mirror == [power |-> power, brightness |-> brightness, color |-> color,
           raced |-> {}]

\* ------------------------------------------------------------------
\* Init: the state __init__ leaves
\* ------------------------------------------------------------------
SInit ==
    /\ client = "none"
    /\ model = None
    /\ converter = "None"
    /\ power = None
    /\ brightness = None
    /\ color = None
    /\ subs = {}
    /\ pc = "idle"
    /\ call = [op |-> "none", arg |-> <<>>]
    /\ outcome = "none"
    /\ clog = <<>>
    /\ pre = [power |-> None, brightness |-> None, color |-> None, raced |-> {}]
    /\ prev = NoPrev
    /\ quiet = FALSE
    /\ populated = {}

\* ------------------------------------------------------------------
\* The caller's coroutine: beginning a call, suspending, returning
\* ------------------------------------------------------------------
Begin(op, arg) ==
    /\ pc = "idle"
    /\ call' = [op |-> op, arg |-> arg]
    /\ pre' = Mirror
    /\ prev' = IF quiet /\ (call.op = "set_power"
                            \/ (call.op = "disconnect" /\ outcome = "ok"))
               THEN [op |-> call.op, arg |-> call.arg,
                     nw |-> Cardinality(Writes(clog)), ok |-> outcome = "ok"]
               ELSE NoPrev

Return(res, log) ==
    /\ pc' = "idle"
    /\ outcome' = res
    /\ clog' = IF res = "fault" THEN Append(log, Raised) ELSE log
    /\ quiet' = TRUE

Suspend(at, log) ==
    /\ pc' = at
    /\ outcome' = "run"
    /\ clog' = log
    /\ quiet' = FALSE

\* Within a call: the history of the call itself does not change
InCall == UNCHANGED <<call, pre, prev>>

\* ------------------------------------------------------------------
\* is_connected
\* ------------------------------------------------------------------
\* (mutant) the test of the color field left out
is_connected_without_color ==
    /\ client = "up"
    /\ model # None
    /\ power # None
    /\ brightness # None

is_connected ==
    /\ client = "up"
    /\ model # None
    /\ power # None
    /\ brightness # None
    /\ color # None

\* ------------------------------------------------------------------
\* The getters.  A float result is the rational <<numerator,
\* denominator>> in lowest terms.
\* ------------------------------------------------------------------
RECURSIVE GCD(_, _)
GCD(a, b) == IF b = 0 THEN a ELSE GCD(b, a % b)

Rat(n, d) == LET g == GCD(n, d) IN <<n \div g, d \div g>>

\* return self.__power
get_power == power

\* return self.__brightness / 0xFE
get_brightness == Rat(brightness[1], MaxBrightness)

\* return round(self.__color[0] * 0xFFFF), round(self.__color[1] * 0xFFFF)
get_color == <<Rat(color[1][1] * MaxCoord, 1), Rat(color[1][2] * MaxCoord, 1)>>

\* ------------------------------------------------------------------
\* connect
\* ------------------------------------------------------------------
\* self.client = BleakClient(...); await self.client.connect()
\* The client replaced is taken to deliver nothing any more: the
\* subscriptions are those of the new client.
Connect ==
    /\ Begin("connect", <<>>)
    /\ client' = "down"
    /\ subs' = {}
    /\ Suspend("c_connect", <<>>)
    /\ UNCHANGED <<model, converter, power, brightness, color>>
    /\ UNCHANGED populated
    /\ UNCHANGED <<dvars, rvars>>

Connected ==
    /\ pc = "c_connect"
    /\ client' = "up"
    /\ Suspend("c_model", Append(clog, Issued("read", CHAR_MODEL)))
    /\ InCall
    /\ UNCHANGED <<model, converter, power, brightness, color, subs>>
    /\ UNCHANGED populated
    /\ UNCHANGED <<dvars, rvars>>

\* model_bytes = await read_gatt_char(CHAR_MODEL); decode; Converter(...)
ModelRead(m) ==
    /\ pc = "c_model"
    /\ client = "up"
    /\ IF m = "non-ascii"
       THEN /\ Return("fault", Append(clog, Malformed(CHAR_MODEL, <<>>)))
            /\ UNCHANGED <<model, converter, populated>>
       ELSE /\ model' = Some(m)
            /\ populated' = populated \cup {CHAR_MODEL}
            /\ converter' = gamut_of(m)
            /\ Suspend("c_sub_power", Append(clog, Issued("subscribe", CHAR_POWER)))
    /\ InCall
    /\ UNCHANGED <<client, power, brightness, color, subs>>
    /\ UNCHANGED <<dvars, rvars>>

\* (mutant) the callback is registered only later
start_notify_deferred(ch) == subs

\* start_notify(ch, callback) has returned: the callback is registered
start_notify(ch) == subs \cup {ch}

\* await self.client.start_notify(ch, callback) returned; the initial read
\* of ch is issued
Subscribed(at, ch, next) ==
    /\ pc = at
    /\ client = "up"
    /\ subs' = start_notify(ch)
    /\ Suspend(next, Append(clog, Issued("read", ch)))
    /\ InCall
    /\ UNCHANGED <<client, model, converter, power, brightness, color>>
    /\ UNCHANGED populated
    /\ UNCHANGED <<dvars, rvars>>

\* pwr = await read_gatt_char(CHAR_POWER); power_callback(-1, pwr)
PowerRead(data) ==
    /\ pc = "c_read_power"
    /\ client = "up"
    /\ IF power_ok(data)
       THEN /\ power' = power_decode(data)
            /\ populated' = populated \cup {CHAR_POWER}
            /\ Suspend("c_sub_brightness",
                       Append(clog, Issued("subscribe", CHAR_BRIGHTNESS)))
       ELSE /\ Return("fault", Append(clog, Malformed(CHAR_POWER, data)))
            /\ UNCHANGED <<power, populated>>
    /\ InCall
    /\ UNCHANGED <<client, model, converter, brightness, color, subs>>
    /\ UNCHANGED <<dvars, rvars>>

\* bright = await read_gatt_char(CHAR_BRIGHTNESS); brightness_callback(-1, bright)
BrightnessRead(data) ==
    /\ pc = "c_read_brightness"
    /\ client = "up"
    /\ IF brightness_ok(data)
       THEN /\ brightness' = brightness_decode(data)
            /\ populated' = populated \cup {CHAR_BRIGHTNESS}
            /\ Suspend("c_sub_color", Append(clog, Issued("subscribe", CHAR_COLOR)))
       ELSE /\ Return("fault", Append(clog, Malformed(CHAR_BRIGHTNESS, data)))
            /\ UNCHANGED <<brightness, populated>>
    /\ InCall
    /\ UNCHANGED <<client, model, converter, power, color, subs>>
    /\ UNCHANGED <<dvars, rvars>>

\* color = await read_gatt_char(CHAR_COLOR); color_callback(-1, color)
ColorRead(data) ==
    /\ pc = "c_read_color"
    /\ client = "up"
    /\ IF color_ok(data)
       THEN /\ color' = color_decode(data)
            /\ populated' = populated \cup {CHAR_COLOR}
            /\ Return("ok", clog)
       ELSE /\ Return("fault", Append(clog, Malformed(CHAR_COLOR, data)))
            /\ UNCHANGED <<color, populated>>
    /\ InCall
    /\ UNCHANGED <<client, model, converter, power, brightness, subs>>
    /\ UNCHANGED <<dvars, rvars>>

\* ------------------------------------------------------------------
\* disconnect
\* ------------------------------------------------------------------
\* await self.client.disconnect(): with no client the call raises at once
Disconnect ==
    /\ Begin("disconnect", <<>>)
    /\ IF client = "none" THEN Return("fault", <<>>) ELSE Suspend("d_wait", <<>>)
    /\ UNCHANGED <<client, model, converter, power, brightness, color, subs>>
    /\ UNCHANGED populated
    /\ UNCHANGED <<dvars, rvars>>

\* self.client = None
Disconnected ==
    /\ pc = "d_wait"
    /\ client' = "none"
    /\ subs' = {}
    /\ Return("ok", clog)
    /\ InCall
    /\ UNCHANGED <<model, converter, power, brightness, color>>
    /\ UNCHANGED populated
    /\ UNCHANGED <<dvars, rvars>>

\* ------------------------------------------------------------------
\* The setters
\* ------------------------------------------------------------------
\* self.client.write_gatt_char(ch, data, response=True): with no client
\* the attribute lookup raises; otherwise the write is issued and the
\* coroutine waits for its acknowledgement
write_gatt_char(ch, data, val, seen, at, log) ==
    IF client = "none"
    THEN Return("fault", log)
    ELSE Suspend(at, Append(log, Write(ch, data, val, seen)))

\* (mutant) the comparison dropped: every call writes
set_power_elide_never(on) == FALSE

\* (mutant) the comparison inverted
set_power_elide_inverted(on) == power # Some(on)

\* if self.__power == on: return
set_power_elide(on) == power = Some(on)

\* set_power up to its await
set_power(on, log) ==
    IF set_power_elide(on)
    THEN Return("ok", log)
    ELSE write_gatt_char(CHAR_POWER, power_byte(on), Some(on), power, "w_power", log)

\* (mutant) the code 0 not told apart
turns_off_never(h) == h < 0

\* if hue_value == 0
turns_off(h) == h = 0

\* if hue_value != self.__brightness
brightness_differs(h) == Some(h) # brightness

\* (mutant) set_brightness returns without the final set_power(True)
ensure_on_skipped(log) == Return("ok", log)

\* await self.set_power(True), the last statement of set_brightness
ensure_on(log) == set_power(TRUE, log)

\* if (x, y) == self.__color: return
set_color_elide(xy) == Some(xy) = color

\* The argument of the set_power whose write is awaited: set_brightness
\* calls set_power(False) for the code 0 and set_power(True) otherwise
on_local == IF call.op = "set_power" THEN call.arg ELSE hue_value(call.arg) # 0

\* (mutant) the field assigned before the write is awaited
after_failed_write_stored(cached, requested) == requested

\* A write that raises: the statement after the await does not run
after_failed_write(cached, requested) == cached

SetPowerStep(on) ==
    /\ Begin("set_power", on)
    /\ set_power(on, <<>>)
    /\ UNCHANGED <<client, model, converter, power, brightness, color, subs>>
    /\ UNCHANGED populated

\* set_power(on), up to its await or its return
SetPower(on) == SetPowerStep(on) /\ UNCHANGED <<dvars, rvars>>

\* the write returned: self.__power = on
PowerWrittenStep ==
    /\ pc = "w_power"
    /\ client = "up"
    /\ power' = Some(on_local)
    /\ Return("ok", Append(clog, Ack(CHAR_POWER)))
    /\ pre' = [pre EXCEPT !.raced = @ \ {CHAR_POWER}]
    /\ UNCHANGED <<call, prev>>
    /\ UNCHANGED <<client, model, converter, brightness, color, subs>>
    /\ populated' = populated \cup {CHAR_POWER}

\* set_power resumed after its write
PowerWritten == PowerWrittenStep /\ UNCHANGED <<dvars, rvars>>

SetBrightness(k) ==
    /\ Begin("set_brightness", k)
    /\ LET h == hue_value(k)
       IN  IF turns_off(h)
           THEN set_power(FALSE, <<>>)
           ELSE IF brightness_differs(h)
                THEN write_gatt_char(CHAR_BRIGHTNESS, <<h>>, Some(h), brightness,
                                     "w_brightness", <<>>)
                ELSE ensure_on(<<>>)
    /\ UNCHANGED <<client, model, converter, power, brightness, color, subs>>
    /\ UNCHANGED populated
    /\ UNCHANGED <<dvars, rvars>>

\* the write returned: self.__brightness = hue_value; await self.set_power(True)
BrightnessWritten ==
    /\ pc = "w_brightness"
    /\ client = "up"
    /\ brightness' = Some(hue_value(call.arg))
    /\ ensure_on(Append(clog, Ack(CHAR_BRIGHTNESS)))
    /\ pre' = [pre EXCEPT !.raced = @ \ {CHAR_BRIGHTNESS}]
    /\ UNCHANGED <<call, prev>>
    /\ UNCHANGED <<client, model, converter, power, color, subs>>
    /\ populated' = populated \cup {CHAR_BRIGHTNESS}
    /\ UNCHANGED <<dvars, rvars>>

SetColor(c) ==
    /\ Begin("set_color", c)
    /\ LET xy == <<coord(c[1]), coord(c[2])>>
       IN  IF set_color_elide(xy)
           THEN Return("ok", <<>>)
           ELSE write_gatt_char(CHAR_COLOR, pack_HH(xy[1], xy[2]), Some(xy), color,
                                "w_color", <<>>)
    /\ UNCHANGED <<client, model, converter, power, brightness, color, subs>>
    /\ UNCHANGED populated
    /\ UNCHANGED <<dvars, rvars>>

\* the write returned: self.__color = x, y
ColorWritten ==
    /\ pc = "w_color"
    /\ client = "up"
    /\ color' = Some(<<coord(call.arg[1]), coord(call.arg[2])>>)
    /\ Return("ok", Append(clog, Ack(CHAR_COLOR)))
    /\ pre' = [pre EXCEPT !.raced = @ \ {CHAR_COLOR}]
    /\ UNCHANGED <<call, prev>>
    /\ UNCHANGED <<client, model, converter, power, brightness, subs>>
    /\ populated' = populated \cup {CHAR_COLOR}
    /\ UNCHANGED <<dvars, rvars>>

\* ------------------------------------------------------------------
\* The RGB accessors
\* ------------------------------------------------------------------
\* The attributes the class Lamp defines (its methods and properties);
\* __init__ adds the data fields only, and there is no __getattr__
LampAttributes ==
    {"discover", "__init__", "is_connected", "connect", "disconnect", "model",
     "get_power", "set_power", "get_brightness", "set_brightness", "get_color",
     "set_color", "get_temperature", "set_temperature", "get_color_rgb",
     "set_color_rgb", "__repr__"}

\* self.<name> resolves
has_attr(name) == name \in LampAttributes

\* (r, g, b) arguments of set_color_rgb
RgbArgs == {<<255, 0, 0>>}

\* x, y = await self.get_color_xy(): the lookup of get_color_xy raises
\* AttributeError before anything is read
GetColorRgb ==
    /\ Begin("get_color_rgb", <<>>)
    /\ ~has_attr("get_color_xy")
    /\ Return("fault", <<>>)
    /\ UNCHANGED <<client, model, converter, power, brightness, color, subs>>
    /\ UNCHANGED populated
    /\ UNCHANGED <<dvars, rvars>>

\* x, y = self.converter.rgb_to_xy(r, g, b); await self.set_color_xy(x, y):
\* without a converter the first statement raises, with one the lookup of
\* set_color_xy does; no write is issued either way
SetColorRgb(rgb) ==
    /\ Begin("set_color_rgb", rgb)
    /\ converter = "None" \/ ~has_attr("set_color_xy")
    /\ Return("fault", <<>>)
    /\ UNCHANGED <<client, model, converter, power, brightness, color, subs>>
    /\ UNCHANGED populated
    /\ UNCHANGED <<dvars, rvars>>

\* An await of connect or disconnect raises: the call ends there
BootstrapFault ==
    /\ pc \in {"c_connect", "c_model", "c_sub_power", "c_read_power",
               "c_sub_brightness", "c_read_brightness", "c_sub_color",
               "c_read_color", "d_wait"}
    /\ Return("fault", clog)
    /\ InCall
    /\ UNCHANGED <<client, model, converter, power, brightness, color, subs>>
    /\ UNCHANGED populated
    /\ UNCHANGED <<dvars, rvars>>

\* The awaited write raises: the setter ends there
WriteFault ==
    /\ pc \in {"w_power", "w_brightness", "w_color"}
    /\ power' = IF pc = "w_power"
                THEN after_failed_write(power, Some(on_local)) ELSE power
    /\ brightness' = IF pc = "w_brightness"
                     THEN after_failed_write(brightness, Some(hue_value(call.arg)))
                     ELSE brightness
    /\ color' = IF pc = "w_color"
                THEN after_failed_write(color,
                         Some(<<coord(call.arg[1]), coord(call.arg[2])>>))
                ELSE color
    /\ Return("fault", clog)
    /\ InCall
    /\ UNCHANGED <<client, model, converter, subs>>
    /\ UNCHANGED populated
    /\ UNCHANGED <<dvars, rvars>>

\* ------------------------------------------------------------------
\* The environment
\* ------------------------------------------------------------------
\* set_brightness is the one setter that awaits after it has read or
\* assigned its field: a brightness notification applied while it waits
\* for its power write replaces what it read or stored
Raced(old, ch, applied) ==
    IF applied /\ ch = CHAR_BRIGHTNESS /\ call.op = "set_brightness" /\ pc = "w_power"
    THEN old \cup {ch} ELSE old

\* The transport delivers a notification to the callback registered by
\* start_notify; a failed assertion ends the callback with nothing stored
PowerNotifyStep(data) ==
    /\ client = "up"
    /\ CHAR_POWER \in subs
    /\ power' = IF power_ok(data) THEN power_decode(data) ELSE power
    /\ pre' = [pre EXCEPT !.power = power',
                          !.raced = Raced(@, CHAR_POWER, power_ok(data))]
    /\ quiet' = FALSE
    /\ UNCHANGED <<client, model, converter, brightness, color, subs,
                   pc, call, outcome, clog, prev>>
    /\ populated' = IF power_ok(data) THEN populated \cup {CHAR_POWER} ELSE populated

\* power_callback run for a notification
PowerNotify(data) == PowerNotifyStep(data) /\ UNCHANGED <<dvars, rvars>>

BrightnessNotify(data) ==
    /\ client = "up"
    /\ CHAR_BRIGHTNESS \in subs
    /\ brightness' = IF brightness_ok(data) THEN brightness_decode(data) ELSE brightness
    /\ pre' = [pre EXCEPT !.brightness = brightness',
                          !.raced = Raced(@, CHAR_BRIGHTNESS, brightness_ok(data))]
    /\ quiet' = FALSE
    /\ UNCHANGED <<client, model, converter, power, color, subs,
                   pc, call, outcome, clog, prev>>
    /\ populated' = IF brightness_ok(data) THEN populated \cup {CHAR_BRIGHTNESS} ELSE populated
    /\ UNCHANGED <<dvars, rvars>>

ColorNotify(data) ==
    /\ client = "up"
    /\ CHAR_COLOR \in subs
    /\ color' = IF color_ok(data) THEN color_decode(data) ELSE color
    /\ pre' = [pre EXCEPT !.color = color',
                          !.raced = Raced(@, CHAR_COLOR, color_ok(data))]
    /\ quiet' = FALSE
    /\ UNCHANGED <<client, model, converter, power, brightness, subs,
                   pc, call, outcome, clog, prev>>
    /\ populated' = IF color_ok(data) THEN populated \cup {CHAR_COLOR} ELSE populated
    /\ UNCHANGED <<dvars, rvars>>

\* The link is lost: the client no longer reports is_connected
Drop ==
    /\ client = "up"
    /\ client' = "down"
    /\ quiet' = FALSE
    /\ UNCHANGED <<model, converter, power, brightness, color, subs,
                   pc, call, outcome, clog, pre, prev>>
    /\ UNCHANGED populated
    /\ UNCHANGED <<dvars, rvars>>

SNext ==
    \/ Connect
    \/ Connected
    \/ \E m \in ModelPayloads : ModelRead(m)
    \/ Subscribed("c_sub_power", CHAR_POWER, "c_read_power")
    \/ \E d \in PowerPayloads : PowerRead(d)
    \/ Subscribed("c_sub_brightness", CHAR_BRIGHTNESS, "c_read_brightness")
    \/ \E d \in BrightPayloads : BrightnessRead(d)
    \/ Subscribed("c_sub_color", CHAR_COLOR, "c_read_color")
    \/ \E d \in ColorPayloads : ColorRead(d)
    \/ Disconnect
    \/ Disconnected
    \/ \E on \in BOOLEAN : SetPower(on)
    \/ PowerWritten
    \/ \E k \in BrightNums : SetBrightness(k)
    \/ BrightnessWritten
    \/ \E c \in ColorArgs : SetColor(c)
    \/ ColorWritten
    \/ GetColorRgb
    \/ \E rgb \in RgbArgs : SetColorRgb(rgb)
    \/ BootstrapFault
    \/ WriteFault
    \/ \E d \in PowerPayloads : PowerNotify(d)
    \/ \E d \in BrightPayloads : BrightnessNotify(d)
    \/ \E d \in ColorPayloads : ColorNotify(d)
    \/ Drop

\* ==================================================================
\* Discovery
\* ==================================================================
\* The devices in range: a lamp, a lamp that advertises no name and has a
\* characteristic more, and a device that lacks the color characteristic
Devices ==
    { [address |-> "A", name |-> Some("Hue lamp"), chars |-> ALL_CHARS],
      [address |-> "B", name |-> None, chars |-> ALL_CHARS \cup {"battery"}],
      [address |-> "C", name |-> Some("Strip"), chars |-> ALL_CHARS \ {CHAR_COLOR}] }

\* Advertisement callbacks delivered within one scan
MaxAdverts == 4

NoCb == [active |-> FALSE, device |-> CHOOSE d \in Devices : TRUE]

\* Lamp.__init__(address_or_ble_device, name) with a BLEDevice: the
\* attributes address and name of the new object.  has_name: the object
\* has an attribute name at all.
LampInit(device, name) ==
    [address |-> device.address,
     has_name |-> name = None,
     name |-> IF name = None THEN device.name ELSE None]

\* (mutant) the test for an address seen before dropped
already_detected_never(address) == FALSE

\* device.address in detected_device_addresses
already_detected(address) == address \in detected_device_addresses

\* (mutant) every device that answers counts as a lamp
has_all_chars_any(characteristic_uuids) == TRUE

\* set(ALL_CHARS) <= set(characteristic_uuids)
has_all_chars(characteristic_uuids) == ALL_CHARS \subseteq characteristic_uuids

\* No write under way, nothing in flight
RInit ==
    /\ dev_power = FALSE
    /\ inflight = <<>>
    /\ wire = "idle"

DInit ==
    /\ scan = "scanning"
    /\ detected_device_addresses = {}
    /\ discovered_lamps = {}
    /\ tasks = <<>>
    /\ cb = NoCb
    /\ adverts = 0
    /\ returned = {}

\* detection_callback(device, _), up to create_task
Advertise(device) ==
    /\ scan = "scanning"
    /\ ~cb.active
    /\ adverts < MaxAdverts
    /\ adverts' = adverts + 1
    /\ IF already_detected(device.address)
       THEN UNCHANGED <<detected_device_addresses, cb>>
       ELSE /\ detected_device_addresses' =
                   detected_device_addresses \cup {device.address}
            /\ cb' = [active |-> TRUE, device |-> device]
    /\ UNCHANGED <<scan, discovered_lamps, tasks, returned>>
    /\ UNCHANGED <<svars, rvars>>

\* task = create_task(...); detection_callback_tasks.add(task)
CreateTask ==
    /\ cb.active
    /\ tasks' = Append(tasks, [device |-> cb.device, at |-> "created",
                                conn |-> FALSE, released |-> FALSE,
                                verified |-> FALSE, cancel |-> FALSE])
    /\ cb' = NoCb
    /\ UNCHANGED <<scan, detected_device_addresses, discovered_lamps, adverts,
                   returned>>
    /\ UNCHANGED <<svars, rvars>>

\* The event loop runs a task only between the segments of the others
Runnable(i) == i \in 1..Len(tasks) /\ ~cb.active

\* The task starts: async with BleakClient(...) awaits the connection
ProbeStart(i) ==
    /\ Runnable(i)
    /\ tasks[i].at = "created"
    /\ ~tasks[i].cancel
    /\ tasks' = [tasks EXCEPT ![i].at = "connecting"]
    /\ UNCHANGED <<scan, detected_device_addresses, discovered_lamps, cb,
                   adverts, returned>>
    /\ UNCHANGED <<svars, rvars>>

\* The connection is up: await client.get_services()
ProbeConnected(i) ==
    /\ Runnable(i)
    /\ tasks[i].at = "connecting"
    /\ ~tasks[i].cancel
    /\ tasks' = [tasks EXCEPT ![i].at = "services", ![i].conn = TRUE]
    /\ UNCHANGED <<scan, detected_device_addresses, discovered_lamps, cb,
                   adverts, returned>>
    /\ UNCHANGED <<svars, rvars>>

\* The services are enumerated: the subset test, discovered_lamps.add,
\* and the exit of the async with, which awaits the disconnection
ProbeEnumerated(i) ==
    /\ Runnable(i)
    /\ tasks[i].at = "services"
    /\ ~tasks[i].cancel
    /\ LET lamp == has_all_chars(tasks[i].device.chars)
       IN  /\ discovered_lamps' = IF lamp
                                  THEN discovered_lamps \cup {tasks[i].device}
                                  ELSE discovered_lamps
           /\ tasks' = [tasks EXCEPT ![i].at = "closing", ![i].released = TRUE,
                                     ![i].verified = lamp]
    /\ UNCHANGED <<scan, detected_device_addresses, cb, adverts, returned>>
    /\ UNCHANGED <<svars, rvars>>

\* The disconnection returned: the task is done, or ends with the
\* exception (or the cancellation) that made it leave the async with
ProbeClosed(i) ==
    /\ Runnable(i)
    /\ tasks[i].at \in {"closing", "closing_failed", "closing_cancelled"}
    /\ tasks' = [tasks EXCEPT ![i].at = IF tasks[i].cancel THEN "cancelled"
                                        ELSE IF @ = "closing" THEN "done"
                                        ELSE "failed",
                              ![i].conn = FALSE]
    /\ UNCHANGED <<scan, detected_device_addresses, discovered_lamps, cb,
                   adverts, returned>>
    /\ UNCHANGED <<svars, rvars>>

\* An await of the probe raises: the connection attempt (nothing to
\* release), get_services (the async with releases the connection), or
\* the disconnection itself.  The exception ends the task and stays in it.
ProbeFault(i) ==
    /\ Runnable(i)
    /\ tasks[i].at \in {"connecting", "services", "closing"}
    /\ ~tasks[i].cancel
    /\ tasks' = [tasks EXCEPT ![i].at = IF @ = "services" THEN "closing_failed"
                                        ELSE "failed",
                              ![i].released = @ \/ tasks[i].at = "services"]
    /\ UNCHANGED <<scan, detected_device_addresses, discovered_lamps, cb,
                   adverts, returned>>
    /\ UNCHANGED <<svars, rvars>>

\* (mutant) the connection not held by an async with: CancelledError ends
\* the task where it is
on_cancel_no_exit(at) == "cancelled"

\* Where CancelledError takes the task: out of the body of the async
\* with through its exit, which awaits the disconnection; anywhere else
\* to its end
on_cancel(at) == IF at = "services" THEN "closing_cancelled" ELSE "cancelled"

\* A cancelled task is resumed with CancelledError: one that never ran
\* or was connecting ends there, one inside the async with releases its
\* connection first, one that was awaiting the disconnection already ends
\* with that await interrupted
ProbeCancelled(i) ==
    /\ Runnable(i)
    /\ tasks[i].cancel
    /\ tasks[i].at \in {"created", "connecting", "services", "closing",
                         "closing_failed"}
    /\ tasks' = [tasks EXCEPT ![i].at = on_cancel(@),
                              ![i].released = @ \/ on_cancel(tasks[i].at) # "cancelled"]
    /\ UNCHANGED <<scan, detected_device_addresses, discovered_lamps, cb,
                   adverts, returned>>
    /\ UNCHANGED <<svars, rvars>>

\* BleakScanner.discover returned: cancel every task, return the lamps
ScanEnd ==
    /\ scan = "scanning"
    /\ ~cb.active
    /\ tasks' = [i \in 1..Len(tasks) |->
                    IF tasks[i].at \in {"done", "failed"} THEN tasks[i]
                    ELSE [tasks[i] EXCEPT !.cancel = TRUE]]
    /\ returned' = {LampInit(lamp, lamp.name) : lamp \in discovered_lamps}
    /\ scan' = "returned"
    /\ UNCHANGED <<detected_device_addresses, discovered_lamps, cb, adverts>>
    /\ UNCHANGED <<svars, rvars>>

\* BleakScanner.discover raised: discover raises with it
ScanFault ==
    /\ scan = "scanning"
    /\ ~cb.active
    /\ scan' = "raised"
    /\ UNCHANGED <<detected_device_addresses, discovered_lamps, tasks, cb,
                   adverts, returned>>
    /\ UNCHANGED <<svars, rvars>>

DNext ==
    \/ \E device \in Devices : Advertise(device)
    \/ CreateTask
    \/ \E i \in 1..Len(tasks) : ProbeStart(i)
    \/ \E i \in 1..Len(tasks) : ProbeConnected(i)
    \/ \E i \in 1..Len(tasks) : ProbeEnumerated(i)
    \/ \E i \in 1..Len(tasks) : ProbeClosed(i)
    \/ \E i \in 1..Len(tasks) : ProbeFault(i)
    \/ \E i \in 1..Len(tasks) : ProbeCancelled(i)
    \/ ScanEnd
    \/ ScanFault

\* ==================================================================
\* Specifications
\* ==================================================================
Init == SInit /\ DInit /\ RInit

\* A Lamp session
Next == SNext
Spec == Init /\ [][Next]_vars

\* One call of Lamp.discover
SpecDiscover == Init /\ [][DNext]_vars

\* The same, on an event loop that keeps running: detection_callback,
\* which does not await, runs to its end; a probe inside its async with is
\* resumed when get_services or the disconnection has returned, and a
\* cancelled probe is resumed with its CancelledError
ProbeResumed(i) == ProbeEnumerated(i) \/ ProbeClosed(i) \/ ProbeCancelled(i)

SpecDiscoverFair ==
    /\ SpecDiscover
    /\ WF_vars(CreateTask)
    /\ \A i \in 1..Cardinality(Devices) : WF_vars(ProbeResumed(i))

\* ==================================================================
\* set_power against the lamp's own changes of its power
\* ==================================================================
\* Messages the lamp may have sent that the client has not received
MaxInflight == 2

Notification(data) == [k |-> "notify", data |-> data]
Response == [k |-> "ack", data |-> <<>>]

\* The first connect has returned on a lamp whose power is p: the state
\* Spec reaches by Connect, Connected, ModelRead, and the three
\* subscriptions and initial reads, with no notification in between
Bootstrapped(p) ==
    /\ client = "up"
    /\ model = Some("LCT001")
    /\ converter = gamut_of("LCT001")
    /\ power = Some(p)
    /\ brightness = Some(1)
    /\ color = Some(<<1, 16384>>)
    /\ subs = {CHAR_POWER, CHAR_BRIGHTNESS, CHAR_COLOR}
    /\ pc = "idle"
    /\ call = [op |-> "connect", arg |-> <<>>]
    /\ outcome = "ok"
    /\ clog = <<Issued("read", CHAR_MODEL),
                Issued("subscribe", CHAR_POWER), Issued("read", CHAR_POWER),
                Issued("subscribe", CHAR_BRIGHTNESS), Issued("read", CHAR_BRIGHTNESS),
                Issued("subscribe", CHAR_COLOR), Issued("read", CHAR_COLOR)>>
    /\ pre = [power |-> None, brightness |-> None, color |-> None, raced |-> {}]
    /\ prev = NoPrev
    /\ quiet = TRUE
    /\ populated = {CHAR_MODEL, CHAR_POWER, CHAR_BRIGHTNESS, CHAR_COLOR}

RaceInit ==
    /\ \E p \in BOOLEAN : Bootstrapped(p) /\ dev_power = p
    /\ inflight = <<>>
    /\ wire = "idle"
    /\ DInit

\* set_power(on) is called; a write it issues is on its way to the lamp
RaceSetPower(on) ==
    /\ wire = "idle"
    /\ SetPowerStep(on)
    /\ wire' = IF pc' = "w_power" THEN "sent" ELSE "idle"
    /\ UNCHANGED <<dev_power, inflight, dvars>>

\* The lamp applies the write and responds; whether it also notifies the
\* writer of the change is left open
DeviceApplies ==
    /\ wire = "sent"
    /\ Len(inflight) < MaxInflight
    /\ dev_power' = on_local
    /\ \E echo \in BOOLEAN :
          inflight' = IF echo /\ dev_power # on_local
                      THEN inflight \o <<Notification(power_byte(on_local)), Response>>
                      ELSE Append(inflight, Response)
    /\ wire' = "applied"
    /\ UNCHANGED <<svars, dvars>>

\* The lamp is switched by someone else (its button, another controller)
\* and notifies the subscribed client
ExternalChange(b) ==
    /\ dev_power # b
    /\ Len(inflight) < MaxInflight
    /\ dev_power' = b
    /\ inflight' = Append(inflight, Notification(power_byte(b)))
    /\ UNCHANGED <<wire, svars, dvars>>

\* The client receives the next message: the response to the write
\* resolves the awaited future, which schedules set_power to resume; a
\* notification runs power_callback at once
Receive ==
    /\ inflight # <<>>
    /\ inflight' = Tail(inflight)
    /\ IF Head(inflight).k = "ack"
       THEN /\ wire' = "acked"
            /\ UNCHANGED svars
       ELSE /\ PowerNotifyStep(Head(inflight).data)
            /\ UNCHANGED wire
    /\ UNCHANGED <<dev_power, dvars>>

\* set_power resumes after its await: self.__power = on
RacePowerWritten ==
    /\ wire = "acked"
    /\ PowerWrittenStep
    /\ wire' = "idle"
    /\ UNCHANGED <<dev_power, inflight, dvars>>

RaceNext ==
    \/ \E on \in BOOLEAN : RaceSetPower(on)
    \/ DeviceApplies
    \/ \E b \in BOOLEAN : ExternalChange(b)
    \/ Receive
    \/ RacePowerWritten

\* A bootstrapped session, set_power calls and the lamp's own changes
SpecRace == RaceInit /\ [][RaceNext]_vars

\* ==================================================================
\* Properties of the Lamp session (checked under Spec)
\* ==================================================================
SetterOps == {"set_power", "set_brightness", "set_color"}

MirrorOf(ch) ==
    CASE ch = CHAR_POWER -> power
      [] ch = CHAR_BRIGHTNESS -> brightness
      [] ch = CHAR_COLOR -> color

PreOf(ch) ==
    CASE ch = CHAR_POWER -> pre.power
      [] ch = CHAR_BRIGHTNESS -> pre.brightness
      [] ch = CHAR_COLOR -> pre.color

\* The call has returned and nothing has run since
Returned(op) == call.op = op /\ pc = "idle" /\ outcome = "ok" /\ quiet

\* The device code of the normalized brightness k / BrightDen, and of the
\* normalized coordinate k / ColorDen, as the specification states them
QBrightness(k) == Round(k * 254, BrightDen)
QCoord(k) == Round(k * 65535, ColorDen)

\* C1, as claimed: when a setter fails on a write, the cached power,
\* brightness and color are what they were before the call (a notification
\* applied meanwhile aside).
C1_FailedSetterChangesNothing ==
    (call.op \in SetterOps /\ outcome = "fault") =>
        /\ power = pre.power
        /\ brightness = pre.brightness
        /\ color = pre.color

\* C1, amended: a setter assigns a cached attribute only once the write of
\* that attribute has been issued and acknowledged, and assigns the value
\* written; when a write raises, the call fails and the attribute that
\* write was for keeps its value.  (In set_brightness the brightness
\* written and acknowledged before the failing power write stays cached.)
C1_CacheOnlyAfterAck ==
    call.op \in SetterOps =>
        /\ \A ch \in {CHAR_POWER, CHAR_BRIGHTNESS, CHAR_COLOR} :
              MirrorOf(ch) # PreOf(ch) =>
                  \E w \in WritesTo(clog, ch) : \E a \in Acks(clog, ch) :
                      w < a /\ MirrorOf(ch) = clog[w].val
        /\ \A w \in Writes(clog) :
              (outcome = "fault" /\ \A a \in Acks(clog, clog[w].ch) : a < w) =>
                  MirrorOf(clog[w].ch) = PreOf(clog[w].ch)

C1_Witness ==
    /\ call.op = "set_brightness"
    /\ outcome = "fault"
    /\ WritesTo(clog, CHAR_POWER) # {}
    /\ Acks(clog, CHAR_BRIGHTNESS) # {}
    /\ brightness # pre.brightness
    /\ power = pre.power

\* C2: a setter issues no write for an attribute whose requested value,
\* quantized, equals the value cached when the setter compares them: every
\* write a setter issues carries a value other than the one it saw cached.
C2_NoRedundantWrite ==
    call.op \in SetterOps =>
        \A w \in Writes(clog) : clog[w].val # clog[w].seen

\* a set_brightness whose code was the cached one and whose power was on
\* already: the call returned without a write
C2_Witness ==
    /\ Returned("set_brightness")
    /\ client = "up"
    /\ QBrightness(call.arg) > 0
    /\ clog = <<>>

\* C3: two calls set_power(x), the second made when the first has returned,
\* issue at most one write to the power characteristic between them.
C3_SetPowerIdempotent ==
    (call.op = "set_power" /\ prev.op = "set_power" /\ prev.ok
        /\ prev.arg = call.arg) =>
        prev.nw + Cardinality(WritesTo(clog, CHAR_POWER)) <= 1

C3_Witness ==
    /\ Returned("set_power")
    /\ client = "up"
    /\ prev.op = "set_power"
    /\ prev.ok
    /\ prev.arg = call.arg
    /\ prev.nw = 1

\* C4: set_brightness with a value whose code is 0 issues no write to the
\* brightness characteristic, does not change the cached brightness, and
\* returns with the cached power False.
C4_ZeroCodeTurnsOff ==
    (call.op = "set_brightness" /\ QBrightness(call.arg) = 0) =>
        /\ WritesTo(clog, CHAR_BRIGHTNESS) = {}
        /\ brightness = pre.brightness
        /\ Returned("set_brightness") => power = Some(FALSE)

\* a positive value that quantizes to 0, on a lamp that was on
C4_Witness ==
    /\ Returned("set_brightness")
    /\ call.arg > 0
    /\ QBrightness(call.arg) = 0
    /\ WritesTo(clog, CHAR_POWER) # {}
    /\ brightness # None

\* C5: set_brightness with a value whose code is positive returns with the
\* cached power True, and a power write it issues comes after its
\* brightness write has been acknowledged.
C5_PositiveCodeTurnsOn ==
    (call.op = "set_brightness" /\ QBrightness(call.arg) > 0) =>
        /\ Returned("set_brightness") => power = Some(TRUE)
        /\ \A p \in WritesTo(clog, CHAR_POWER) :
              /\ clog[p].data = <<1>>
              /\ \A b \in WritesTo(clog, CHAR_BRIGHTNESS) :
                    \E a \in Acks(clog, CHAR_BRIGHTNESS) : b < a /\ a < p

C5_Witness ==
    /\ Returned("set_brightness")
    /\ QBrightness(call.arg) > 0
    /\ WritesTo(clog, CHAR_BRIGHTNESS) # {}
    /\ WritesTo(clog, CHAR_POWER) # {}

\* C6, as claimed: on a connected session get_color() after
\* set_color((x, y)) returns (round(x*65535)/65535, round(y*65535)/65535).
C6_ColorRoundTrip ==
    (Returned("set_color") /\ is_connected) =>
        get_color = <<Rat(QCoord(call.arg[1]), 65535),
                      Rat(QCoord(call.arg[2]), 65535)>>

\* C7, as claimed: get_brightness() after a set_brightness(v) that returned,
\* round(v*254) >= 1, is round(v*254)/254, and the brightness bytes written
\* lie in 1..254.
C7_BrightnessRoundTrip ==
    (call.op = "set_brightness" /\ QBrightness(call.arg) >= 1) =>
        /\ Returned("set_brightness") =>
              get_brightness = Rat(QBrightness(call.arg), 254)
        /\ \A w \in WritesTo(clog, CHAR_BRIGHTNESS) :
              Len(clog[w].data) = 1 /\ clog[w].data[1] \in 1..254

\* C7, amended: the same, provided no brightness notification was applied
\* while the call waited for its power-on write.
C7_BrightnessRoundTripUnraced ==
    (call.op = "set_brightness" /\ QBrightness(call.arg) >= 1) =>
        /\ (Returned("set_brightness") /\ CHAR_BRIGHTNESS \notin pre.raced) =>
              get_brightness = Rat(QBrightness(call.arg), 254)
        /\ \A w \in WritesTo(clog, CHAR_BRIGHTNESS) :
              /\ Len(clog[w].data) = 1
              /\ clog[w].data[1] \in 1..254
              /\ clog[w].data[1] = QBrightness(call.arg)

\* the tie 190.5, written as 190 and read back as 190/254 = 95/127
C7_Witness ==
    /\ Returned("set_brightness")
    /\ call.arg = 768
    /\ WritesTo(clog, CHAR_BRIGHTNESS) # {}
    /\ CHAR_BRIGHTNESS \notin pre.raced
    /\ get_brightness = <<95, 127>>

\* A payload that is not a well-formed value of the attribute
MalformedPower(d) == d \notin {<<0>>, <<1>>}
MalformedBrightness(d) == Len(d) # 1
MalformedColor(d) == Len(d) # 4

MalformedFor(ch, d) ==
    CASE ch = CHAR_POWER -> MalformedPower(d)
      [] ch = CHAR_BRIGHTNESS -> MalformedBrightness(d)
      [] ch = CHAR_COLOR -> MalformedColor(d)

Rejected(ch) == {i \in 1..Len(clog) : clog[i].k = "malformed" /\ clog[i].ch = ch}

\* C11: a malformed payload (a power payload other than the single byte 0
\* or 1, a brightness payload not of length 1, a color payload not of
\* length 4) raises and stores nothing.  Delivered by a notification, the
\* cached attribute is after the callback what it was before; delivered by
\* the initial read of connect, connect raises there with the attribute as
\* it was, and no read of a malformed payload lets connect go on.
C11_MalformedPayloadRejected ==
    /\ [](call.op = "connect" =>
            \A ch \in {CHAR_POWER, CHAR_BRIGHTNESS, CHAR_COLOR} :
                \A i \in Rejected(ch) :
                    /\ MalformedFor(ch, clog[i].data)
                    /\ pc = "idle" /\ outcome = "fault"
                    /\ MirrorOf(ch) = PreOf(ch))
    /\ [][/\ \A d \in PowerPayloads :
               MalformedPower(d) =>
                   /\ PowerNotify(d) => power' = power
                   /\ PowerRead(d) => (power' = power /\ outcome' = "fault")
          /\ \A d \in BrightPayloads :
               MalformedBrightness(d) =>
                   /\ BrightnessNotify(d) => brightness' = brightness
                   /\ BrightnessRead(d) =>
                          (brightness' = brightness /\ outcome' = "fault")
          /\ \A d \in ColorPayloads :
               MalformedColor(d) =>
                   /\ ColorNotify(d) => color' = color
                   /\ ColorRead(d) => (color' = color /\ outcome' = "fault")]_vars

\* connect raised on the power payload <<2>> read after a notification had
\* set the power: the value set by the notification is still cached
C11_Witness ==
    /\ call.op = "connect"
    /\ outcome = "fault"
    /\ \E i \in Rejected(CHAR_POWER) : clog[i].data = <<2>>
    /\ power = Some(TRUE)
    /\ brightness = None

\* The call (of connect or disconnect) has ended, and no other has begun
Ended(op, res) == call.op = op /\ pc = "idle" /\ outcome = res

AllUnknown == model = None /\ power = None /\ brightness = None /\ color = None

\* C12, as claimed: after a connect that raised on an await of the
\* transport (the connection, the model read, a subscription or an initial
\* read), is_connected is false, whatever notifications arrive afterwards
\* and whether or not the session had been connected before.
C12_FailedConnectNotConnected ==
    (Ended("connect", "fault") /\ \A i \in 1..Len(clog) : clog[i].k # "malformed")
        => ~is_connected

\* C13, as claimed: once disconnect has returned, is_connected is false,
\* and stays false inside the connect called next until that connect has
\* returned.
C13_DisconnectedUntilConnected ==
    /\ Ended("disconnect", "ok") => ~is_connected
    /\ (call.op = "connect" /\ prev.op = "disconnect" /\ prev.ok /\ outcome # "ok")
          => ~is_connected

\* C14, as claimed: the model, power, brightness and color are unknown
\* after construction and after a disconnect that returned.
C14_UnknownAfterDisconnect ==
    (call.op = "none" \/ Ended("disconnect", "ok")) => AllUnknown

\* C15, as claimed: a setter called on a session without a connected
\* transport raises; put the other way round, a setter that returned was
\* called on a session whose client reports connected.
C15_SetterFailsWithoutTransport ==
    \A op \in SetterOps : Returned(op) => client = "up"

\* C16: is_connected is true only if the session holds a client that
\* reports connected and the model, power, brightness and color have each
\* been assigned at least once.
C16_ConnectedImpliesPopulated ==
    is_connected =>
        /\ client = "up"
        /\ {CHAR_MODEL, CHAR_POWER, CHAR_BRIGHTNESS, CHAR_COLOR} \subseteq populated

\* connect has returned: the session is connected
C16_Witness ==
    /\ Returned("connect")
    /\ is_connected
    /\ subs = {CHAR_POWER, CHAR_BRIGHTNESS, CHAR_COLOR}

\* The awaits of bootstrap, in the order claimed
BootstrapOrder ==
    <<Issued("read", CHAR_MODEL),
      Issued("subscribe", CHAR_POWER), Issued("read", CHAR_POWER),
      Issued("subscribe", CHAR_BRIGHTNESS), Issued("read", CHAR_BRIGHTNESS),
      Issued("subscribe", CHAR_COLOR), Issued("read", CHAR_COLOR)>>

IsStep(e) == e.k \in {"read", "subscribe"}

ReadPending(ch) ==
    /\ call.op = "connect"
    /\ pc = CASE ch = CHAR_POWER -> "c_read_power"
              [] ch = CHAR_BRIGHTNESS -> "c_read_brightness"
              [] ch = CHAR_COLOR -> "c_read_color"

\* C18: connect reads the model, then for power, brightness and color in
\* this order subscribes and, the subscription established, issues the
\* initial read; while an initial read is pending the attribute's callback
\* is registered, and a well-formed notification delivered then is stored
\* in the cache by that callback.
C18_SubscribeBeforeRead ==
    /\ [](call.op = "connect" =>
            LET steps == SelectSeq(clog, IsStep)
            IN  /\ Len(steps) <= Len(BootstrapOrder)
                /\ steps = SubSeq(BootstrapOrder, 1, Len(steps)))
    /\ [](\A ch \in {CHAR_POWER, CHAR_BRIGHTNESS, CHAR_COLOR} :
            ReadPending(ch) => ch \in subs)
    /\ [](ReadPending(CHAR_POWER) /\ client = "up" => ENABLED PowerNotify(<<1>>))
    /\ [][/\ \A d \in PowerPayloads :
               (ReadPending(CHAR_POWER) /\ ~MalformedPower(d) /\ PowerNotify(d))
                   => power' = Some(d[1] = 1)
          /\ \A d \in BrightPayloads :
               (ReadPending(CHAR_BRIGHTNESS) /\ ~MalformedBrightness(d)
                   /\ BrightnessNotify(d)) => brightness' = Some(d[1])
          /\ \A d \in ColorPayloads :
               (ReadPending(CHAR_COLOR) /\ ~MalformedColor(d) /\ ColorNotify(d))
                   => color' = Some(<<d[1] + 256 * d[2], d[3] + 256 * d[4]>>)]_vars

\* the first connect, waiting for the initial read of the power, which a
\* notification has set meanwhile
C18_Witness ==
    /\ ReadPending(CHAR_POWER)
    /\ CHAR_POWER \in subs
    /\ power = Some(TRUE)
    /\ populated = {CHAR_MODEL, CHAR_POWER}
    /\ Len(clog) = 3

\* C17, as claimed: on a session whose bootstrap completed, neither
\* set_color_rgb(r, g, b) nor get_color_rgb() fails (the first acting as
\* set_color on the converted pair, the second returning the converted
\* result of the xy getter).
C17_RgbAccessorsWork ==
    (call.op \in {"set_color_rgb", "get_color_rgb"} /\ pc = "idle" /\ quiet
        /\ is_connected) => outcome = "ok"

\* ==================================================================
\* Properties of discovery (checked under SpecDiscover)
\* ==================================================================
ProbesOf(address) == {i \in 1..Len(tasks) : tasks[i].device.address = address}

\* C8: however many advertisements carry an address, at most one probe
\* task is created for it, and the address is in
\* detected_device_addresses before the task exists.
C8_OneProbePerAddress ==
    /\ \A d \in Devices : Cardinality(ProbesOf(d.address)) <= 1
    /\ \A i \in 1..Len(tasks) :
          tasks[i].device.address \in detected_device_addresses
    /\ cb.active =>
          /\ cb.device.address \in detected_device_addresses
          /\ ProbesOf(cb.device.address) = {}

\* three advertisements of one address, the later ones while its probe
\* is connecting
C8_Witness ==
    /\ adverts = 3
    /\ Cardinality(detected_device_addresses) = 1
    /\ Len(tasks) = 1
    /\ tasks[1].at = "connecting"

\* A probe that did not confirm its device: it found a characteristic
\* missing, or its connection or enumeration raised
Unconfirmed(i) ==
    /\ ~tasks[i].verified
    /\ tasks[i].at \in {"closing", "closing_failed", "done", "failed"}

\* C9: what discover returns are the devices whose probe enumerated all
\* five characteristics; the device of a probe that found one missing, or
\* that raised while connecting or enumerating, is not returned; and a
\* probe that raises changes neither the state of the discover call nor
\* the set of lamps found by the other probes.
C9_OnlyConfirmedLampsReturned ==
    /\ [](scan = "returned" =>
            /\ \A l \in returned : \E i \in ProbesOf(l.address) :
                  /\ tasks[i].verified
                  /\ ALL_CHARS \subseteq tasks[i].device.chars
            /\ \A i \in 1..Len(tasks) :
                  Unconfirmed(i) =>
                      \A l \in returned : l.address # tasks[i].device.address
            /\ \A d \in discovered_lamps : \E l \in returned : l.address = d.address)
    /\ [][(\E i \in 1..Len(tasks) :
              /\ tasks[i].at \notin {"failed", "closing_failed"}
              /\ tasks'[i].at \in {"failed", "closing_failed"}
              /\ ~tasks'[i].cancel)
          => UNCHANGED <<scan, returned, discovered_lamps>>]_vars

\* discover returned a lamp although one probe raised and another found
\* the color characteristic missing
C9_Witness ==
    /\ scan = "returned"
    /\ returned # {}
    /\ \E i \in 1..Len(tasks) : tasks[i].at = "failed" /\ ~tasks[i].verified
    /\ \E i \in 1..Len(tasks) :
          /\ tasks[i].at = "done"
          /\ ~tasks[i].verified
          /\ CHAR_COLOR \notin tasks[i].device.chars

\* C10, as claimed: every Lamp discover returns has the address of its
\* device and an attribute name equal to the device's advertised name.
C10_NameCarried ==
    scan = "returned" =>
        \A d \in discovered_lamps : \E l \in returned :
            /\ l.address = d.address
            /\ l.has_name
            /\ l.name = d.name

\* A probe that has ended
Over(i) == tasks[i].at \in {"done", "failed", "cancelled"}

Settled == pc = "idle" /\ wire = "idle" /\ inflight = <<>>

\* C20, as claimed: whenever no set_power is in flight and every pending
\* notification has been delivered, the cached power is the lamp's actual
\* power.
C20_CacheFollowsDevice ==
    Settled => power = Some(dev_power)

====
